---- MODULE Spec2Model ----
(***************************************************************************)
(* The preference write coordinator of                                     *)
(* packages/preferences/src/browser/abstract-resource-preference-provider  *)
(* (LockQueue and AbstractResourcePreferenceProvider) as a state machine.  *)
(* Every await of the source is a suspension point: the part of a method   *)
(* between two awaits is one atomic action.  The continuation of an await  *)
(* on a settled promise is a job of the microtask queue mq, which runs the *)
(* jobs in FIFO order; input from the user and from the file system        *)
(* arrives only while mq is empty.                                         *)
(* The checkbox PreferenceBooleanInput, which calls setPreference through  *)
(* the preference service, is a second state machine, SpecInput, on        *)
(* variables of its own.                                                   *)
(***************************************************************************)
EXTENDS Integers, Sequences, FiniteSets, TLC

\* ---------------------------------------------------------------- bounds
MaxCalls == 3        \* setPreference calls issued in one behaviour
MaxEnvEvents == 1    \* events from outside in one behaviour: edits of the user,
                     \* changes of validity, disposal, an edit the document rejects

CallIds == 1..MaxCalls

\* ---------------------------------------------------------------- values
Keys == {"a", "b"}
Vals == {1, 2}
Undefined == 0                         \* the JavaScript value undefined
PrefVals == Vals \cup {Undefined}

\* A preference object; a key that reads Undefined is absent.
EmptyPrefs == [k \in Keys |-> Undefined]

\* The text of the document: the empty text, text that is not an object,
\* or the JSON text of an object.
EmptyText == [kind |-> "empty", obj |-> EmptyPrefs]
CorruptText == [kind |-> "corrupt", obj |-> EmptyPrefs]
ObjText(o) == [kind |-> "object", obj |-> o]
InitTexts == {EmptyText}

\* resource URIs are paths; the empty path stands for no resourceUri
NoResource == <<>>
Domain == {<<"ws">>}
InResource == <<"ws", "x">>
OutResource == <<"other">>

\* The (key, value, resourceUri) arguments callers pass to setPreference.
Requests ==
    { [key |-> "a", value |-> 1, resource |-> InResource],
      [key |-> "b", value |-> 2, resource |-> NoResource],
      [key |-> "a", value |-> Undefined, resource |-> InResource],
      [key |-> "a", value |-> 1, resource |-> OutResource] }

\* what an editResolver / the promise of setPreference is settled with
\* (a positive number f: the promise localPendingChanges of flush f)
Unresolved == 0
ResFalse == -1
ResRejected == -2
ResTrue == -3

VARIABLES
    loading,        \* the Deferred loading: "pending", "resolved", "rejected"
    disposed,       \* toDispose.disposed
    modelSet,       \* this.model is defined
    text,           \* model.getText()
    dirty,          \* model.dirty
    valid,          \* model.valid
    savedText,      \* the content last persisted by model.save()
    userEdits,      \* the document holds edits of the user that are not saved
    preferences,    \* this.preferences, the snapshot
    editQueue,      \* this.editQueue, the ids of the enqueued calls
    calls,          \* the setPreference calls, by id
    flush,          \* the doSetPreferences runs, by the id of the call that started them
    busy,           \* fileEditLock.busy
    lockQueue,      \* fileEditLock.queue, the flushes waiting in acquire()
    gate,           \* which Deferred this.dirtyEditorHandled holds (0: the initial one)
    gateResolved,   \* the dirtyEditorHandled Deferreds that are resolved
    handler,        \* the handleDirtyEditor runs, by the id of the call that started them
    mq,             \* the microtask queue: c resumes call c, -f resumes flush f
    envEvents,      \* number of events from outside so far
    emitted,        \* the change records emitted by the last step
    prefValue,      \* PreferenceBooleanInput: preferenceDisplayNode.preference.value
    checked,        \* PreferenceBooleanInput: the state `checked`
    inFlight        \* PreferenceBooleanInput: the setValue calls awaiting setPreference

providerVars ==
    << loading, disposed, modelSet, text, dirty, valid, savedText, userEdits, preferences,
       editQueue, calls, flush, busy, lockQueue, gate, gateResolved, handler,
       mq, envEvents, emitted >>

inputVars == << prefValue, checked, inFlight >>

vars == << providerVars, inputVars >>

docVars == << text, dirty, valid, savedText, userEdits >>
lockVars == << busy, lockQueue >>

Range(s) == { s[i] : i \in DOMAIN s }

IsPrefix(p, s) == Len(p) <= Len(s) /\ \A i \in 1..Len(p) : p[i] = s[i]

\* ---------------------------------------------------------------- LockQueue
\* acquire() that hands the lock out although it is busy
LockAcquireNoWait(b, q, who) ==
    [busy |-> TRUE, queue |-> q]

\* acquire() that puts a waiting caller at the front of the queue
LockAcquireAtFront(b, q, who) ==
    [busy |-> TRUE, queue |-> IF b THEN <<who>> \o q ELSE q]

LockAcquire(b, q, who) ==
    [busy |-> TRUE, queue |-> IF b THEN Append(q, who) ELSE q]

\* release() that leaves busy set when no caller waits
LockReleaseKeepsBusy(b, q) ==
    IF q # <<>>
    THEN [busy |-> b, queue |-> Tail(q), freed |-> FALSE]
    ELSE [busy |-> b, queue |-> q, freed |-> TRUE]

\* release() that fires onFree although it hands the lock to the next in line
LockReleaseFiresOnTransfer(b, q) ==
    IF q # <<>>
    THEN [busy |-> b, queue |-> Tail(q), freed |-> TRUE]
    ELSE [busy |-> FALSE, queue |-> q, freed |-> TRUE]

LockRelease(b, q) ==
    IF q # <<>>
    THEN [busy |-> b, queue |-> Tail(q), freed |-> FALSE]
    ELSE [busy |-> FALSE, queue |-> q, freed |-> TRUE]

\* waitUntilFree() that never waits
WaitUntilFreeAlways(b) == TRUE

\* waitUntilFree() returns a resolved promise
WaitUntilFreeNow(b) == ~b

\* ---------------------------------------------------------------- parsing
\* parse + getParsedContent: scalar values are never override containers
GetParsedContent(t) == IF t.kind = "object" THEN t.obj ELSE EmptyPrefs

\* the schema: "b" may not be defined in the scope of this provider
ValidInScope(k) == k # "b"

DeepEqual(x, y) == x = y

\* a test of change that leaves undefined to JSONExt.deepEqual, which does
\* not tell it from a defined value
PrefChangedDefinedOnly(old, new) ==
    old # Undefined /\ new # Undefined /\ ~DeepEqual(old, new)

\* lines 365-367: the value was added, removed or is not deeply equal
PrefChanged(old, new) ==
    \/ new = Undefined /\ old # new
    \/ old = Undefined /\ new # old
    \/ ~DeepEqual(old, new)

\* handlePreferenceChanges without the test of the scope
PrefChangesAnyScope(oldPrefs, newPrefs) ==
    { [name |-> k, oldValue |-> oldPrefs[k], newValue |-> newPrefs[k]] :
        k \in { n \in Keys : PrefChanged(oldPrefs[n], newPrefs[n]) } }

\* the change records handlePreferenceChanges emits
PrefChanges(oldPrefs, newPrefs) ==
    { [name |-> k, oldValue |-> oldPrefs[k], newValue |-> newPrefs[k]] :
        k \in { n \in Keys : ValidInScope(n) /\ PrefChanged(oldPrefs[n], newPrefs[n]) } }

\* readPreferences that reads a dirty document too
ReadSkippedNoModel(ms, d) == ~ms

\* readPreferences returns without reading
ReadSkipped(ms, d) == ~ms \/ d

\* the snapshot after readPreferences ran on the document state (t, d, v)
ReadPreferences(ms, t, d, v, prefs) ==
    IF ReadSkipped(ms, d) THEN prefs
    ELSE IF v THEN GetParsedContent(t) ELSE EmptyPrefs

\* handlePreferenceChanges that emits the records and does not store the new
\* map
NotifyWithoutStore(t, d, v) ==
    /\ preferences' = preferences
    /\ emitted' = PrefChanges(preferences, ReadPreferences(modelSet, t, d, v, preferences))

\* a change notification of the document, delivered to readPreferences
Notify(t, d, v) ==
    /\ preferences' = ReadPreferences(modelSet, t, d, v, preferences)
    /\ emitted' = PrefChanges(preferences, preferences')

\* reset() that passes over the keys the schema bars from this scope
ResetChangesInScope(prefs) ==
    { [name |-> k, oldValue |-> prefs[k], newValue |-> Undefined] :
        k \in { n \in Keys : prefs[n] # Undefined /\ ValidInScope(n) } }

\* the change records reset() emits
ResetChanges(prefs) ==
    { [name |-> k, oldValue |-> prefs[k], newValue |-> Undefined] :
        k \in { n \in Keys : prefs[n] # Undefined } }

\* ---------------------------------------------------------------- edits
\* a provider that takes every resource URI for its own
ContainsAnything(r) == TRUE

Contains(r) == r = NoResource \/ \E d \in Domain : IsPrefix(d, r)

\* getPreferences(resourceUri) on a provider whose model is set (ms) and
\* valid (v) and whose snapshot is prefs
GetPreferences(ms, v, prefs, r) ==
    IF ms /\ v /\ Contains(r) THEN prefs ELSE EmptyPrefs

\* jsoncparser.modify(content, [key], value) applied to the text
Modify(t, k, v) ==
    IF t.kind = "empty"
    THEN [text |-> ObjText([EmptyPrefs EXCEPT ![k] = v]), changed |-> TRUE]
    ELSE IF v = Undefined /\ t.obj[k] = Undefined
         THEN [text |-> t, changed |-> FALSE]
         ELSE [text |-> ObjText([t.obj EXCEPT ![k] = v]), changed |-> TRUE]

\* doSetPreference without the test for empty content and an undefined value
DoSetPreferenceEditsAlways(ms, t, k, v) ==
    IF ~ms THEN [ok |-> FALSE, awaits |-> FALSE, text |-> t, changed |-> FALSE]
    ELSE IF t.kind = "corrupt"
         THEN [ok |-> FALSE, awaits |-> FALSE, text |-> t, changed |-> FALSE]
         ELSE [ok |-> TRUE, awaits |-> TRUE] @@ Modify(t, k, v)

\* doSetPreference that fails when the key already holds the value
DoSetPreferenceRefusesSameValue(ms, t, k, v) ==
    IF ~ms THEN [ok |-> FALSE, awaits |-> FALSE, text |-> t, changed |-> FALSE]
    ELSE IF t.kind = "empty" /\ v = Undefined
         THEN [ok |-> TRUE, awaits |-> FALSE, text |-> t, changed |-> FALSE]
         ELSE IF t.kind = "corrupt" \/ (v # Undefined /\ t.obj[k] = v)
              THEN [ok |-> FALSE, awaits |-> FALSE, text |-> t, changed |-> FALSE]
              ELSE [ok |-> TRUE, awaits |-> TRUE] @@ Modify(t, k, v)

\* doSetPreference that takes every undefined value for a no-op
DoSetPreferenceSkipsUndefined(ms, t, k, v) ==
    IF ~ms THEN [ok |-> FALSE, awaits |-> FALSE, text |-> t, changed |-> FALSE]
    ELSE IF v = Undefined
         THEN [ok |-> TRUE, awaits |-> FALSE, text |-> t, changed |-> FALSE]
         ELSE IF t.kind = "corrupt"
              THEN [ok |-> FALSE, awaits |-> FALSE, text |-> t, changed |-> FALSE]
              ELSE [ok |-> TRUE, awaits |-> TRUE] @@ Modify(t, k, v)

\* doSetPreference up to its await or return: the result, the document text
\* and whether it awaits applyBackgroundEdit
DoSetPreference(ms, t, k, v) ==
    IF ~ms THEN [ok |-> FALSE, awaits |-> FALSE, text |-> t, changed |-> FALSE]
    ELSE IF t.kind = "empty" /\ v = Undefined
         THEN [ok |-> TRUE, awaits |-> FALSE, text |-> t, changed |-> FALSE]
         ELSE IF t.kind = "corrupt"
              THEN [ok |-> FALSE, awaits |-> FALSE, text |-> t, changed |-> FALSE]
              ELSE [ok |-> TRUE, awaits |-> TRUE] @@ Modify(t, k, v)

\* ---------------------------------------------------------------- state
\* a call: by, ok and chg record the flush that popped it, the result of its
\* doSetPreference and whether that changed the text; late, that it was
\* enqueued after a flush had begun to drain the queue
NoCall == [pc |-> "idle", key |-> "a", value |-> Undefined, resource |-> NoResource,
           res |-> Unresolved, by |-> 0, ok |-> FALSE, chg |-> FALSE, late |-> FALSE]
\* a flush: gate is the Deferred it awaits, cur and curOk the call whose edit it
\* awaits and the result; saved and threw record that it called model.save()
\* and that the call threw
NoFlush == [pc |-> "none", gate |-> 0, cur |-> 0, curOk |-> FALSE, saved |-> FALSE,
            threw |-> FALSE, outcome |-> FALSE]
\* a handler ends "done" after Save and Retry, "declined" after another answer;
\* user records that the document held unsaved edits of the user when it started
NoHandler == [pc |-> "none", saved |-> FALSE, user |-> FALSE]


Init ==
    /\ loading = "pending"
    /\ disposed = FALSE
    /\ modelSet = FALSE
    /\ text \in InitTexts
    /\ dirty = FALSE
    /\ valid = TRUE
    /\ savedText = text
    /\ userEdits = FALSE
    /\ preferences = EmptyPrefs
    /\ editQueue = <<>>
    /\ calls = [c \in CallIds |-> NoCall]
    /\ flush = [c \in CallIds |-> NoFlush]
    /\ busy = FALSE
    /\ lockQueue = <<>>
    /\ gate = 0
    /\ gateResolved = {0}
    /\ handler = [c \in CallIds |-> NoHandler]
    /\ mq = <<>>
    /\ envEvents = 0
    /\ emitted = {}
    /\ prefValue = "other"
    /\ checked = FALSE
    /\ inFlight = <<>>


\* ---------------------------------------------------------------- helpers
RECURSIVE Sorted(_)
\* the elements of a set of integers in increasing order
Sorted(S) ==
    IF S = {} THEN <<>>
    ELSE LET m == CHOOSE x \in S : \A y \in S : x <= y
         IN <<m>> \o Sorted(S \ {m})

\* Deferred.resolve: a second resolution changes nothing
ResolveCall(cs, c, r) ==
    IF cs[c].res = Unresolved THEN [cs EXCEPT ![c].res = r] ELSE cs

\* the calls whose waitUntilFree() promise waits for onFree, in arrival order
FreeWaiters(cs) == Sorted({ c \in CallIds : cs[c].pc = "freeBlocked" })

\* onFreeEmitter.fire(): every waitUntilFree() promise resolves
Wake(cs) ==
    [c \in CallIds |->
        IF cs[c].pc = "freeBlocked" THEN [cs[c] EXCEPT !.pc = "freeReady"] ELSE cs[c]]

\* a Deferred loading that resumes none of the calls that wait for it
LoadingWaitersForgotten == <<>>

\* the calls suspended at `await this.loading.promise`, in arrival order
LoadingWaiters == Sorted({ c \in CallIds : calls[c].pc = "awaitLoading" })

\* the flushes suspended at the Deferred g of dirtyEditorHandled, as jobs
GateWaiters(g) ==
    IF g \in gateResolved THEN <<>>
    ELSE [i \in 1..Cardinality({ f \in CallIds : flush[f].pc = "awaitGate" /\ flush[f].gate = g })
            |-> 0 - Sorted({ f \in CallIds : flush[f].pc = "awaitGate" /\ flush[f].gate = g })[i]]

\* some doSetPreferences run has passed its await of the dirty gate
DrainStarted == \E f \in CallIds : flush[f].pc \notin {"none", "awaitGate"}

\* model.save() returned: the content is persisted and the document is clean
Saved ==
    /\ savedText' = text
    /\ dirty' = FALSE
    /\ userEdits' = FALSE
    /\ UNCHANGED << text, valid >>
    /\ Notify(text, FALSE, valid)

\* ---------------------------------------------------------------- setPreference
\* a caller invokes setPreference(key, value, resourceUri); it suspends at
\* `await this.loading.promise`
Issue(c, rq) ==
    /\ calls[c].pc = "idle"
    /\ \A d \in CallIds : d < c => calls[d].pc # "idle"
    /\ calls' = [calls EXCEPT ![c] =
                    [NoCall EXCEPT !.pc = "awaitLoading", !.key = rq.key,
                                   !.value = rq.value, !.resource = rq.resource]]
    /\ mq' = IF loading = "pending" THEN mq ELSE Append(mq, c)
    /\ emitted' = {}
    /\ UNCHANGED << loading, disposed, modelSet, docVars, preferences, editQueue, flush,
                    lockVars, gate, gateResolved, handler, envEvents >>

\* setPreference resumes after loading: the model and domain checks, then
\* `await this.fileEditLock.waitUntilFree()`
CallLoaded(c) ==
    /\ mq # <<>> /\ Head(mq) = c
    /\ calls[c].pc = "awaitLoading"
    /\ IF loading = "rejected"
       THEN /\ calls' = [calls EXCEPT ![c].pc = "refused", ![c].res = ResRejected]
            /\ mq' = Tail(mq)
       ELSE IF ~modelSet \/ ~Contains(calls[c].resource)
            THEN /\ calls' = [calls EXCEPT ![c].pc = "refused", ![c].res = ResFalse]
                 /\ mq' = Tail(mq)
            ELSE IF WaitUntilFreeNow(busy)
                 THEN /\ calls' = [calls EXCEPT ![c].pc = "freeReady"]
                      /\ mq' = Append(Tail(mq), c)
                 ELSE /\ calls' = [calls EXCEPT ![c].pc = "freeBlocked"]
                      /\ mq' = Tail(mq)
    /\ emitted' = {}
    /\ UNCHANGED << loading, disposed, modelSet, docVars, preferences, editQueue, flush,
                    lockVars, gate, gateResolved, handler, envEvents >>

IsFirstEditInQueue(q) == q = <<>>

MustHandleDirty(first, d) == first /\ d

\* setPreference resumes after waitUntilFree: enqueue, and for the first edit
\* in the queue start handleDirtyEditor (if dirty) and doSetPreferences, each
\* running up to its first await
CallEnqueue(c) ==
    /\ mq # <<>> /\ Head(mq) = c
    /\ calls[c].pc = "freeReady"
    /\ LET first == IsFirstEditInQueue(editQueue) IN
       IF first /\ ~modelSet
       THEN \* this.model.dirty throws: the promise of setPreference rejects
            /\ calls' = [calls EXCEPT ![c].pc = "refused", ![c].res = ResRejected]
            /\ mq' = Tail(mq)
            /\ UNCHANGED << editQueue, gate, handler, flush >>
       ELSE LET must == MustHandleDirty(first, dirty) IN
            /\ editQueue' = Append(editQueue, c)
            /\ gate' = IF must THEN c ELSE gate
            /\ handler' = IF must
                          THEN [handler EXCEPT ![c].pc = "prompt", ![c].user = userEdits]
                          ELSE handler
            /\ flush' = IF first
                        THEN [flush EXCEPT ![c] =
                                [NoFlush EXCEPT !.pc = "awaitGate", !.gate = gate']]
                        ELSE flush
            /\ mq' = IF first /\ gate' \in gateResolved
                     THEN Append(Tail(mq), 0 - c) ELSE Tail(mq)
            /\ calls' = [calls EXCEPT ![c].pc = "returned",
                                      ![c].late = DrainStarted]
    /\ emitted' = {}
    /\ UNCHANGED << loading, disposed, modelSet, docVars, preferences, lockVars,
                    gateResolved, envEvents >>

\* ---------------------------------------------------------------- doSetPreferences
\* whether the document may reject the edit of this step
Rejections == IF envEvents < MaxEnvEvents THEN BOOLEAN ELSE {FALSE}

\* the result r of doSetPreference when the document takes the edit it awaits,
\* and when applyBackgroundEdit throws instead (rej): the text t stays and the
\* catch block returns false
ApplyEdit(r, t, rej) ==
    IF rej /\ r.awaits
    THEN [ok |-> FALSE, awaits |-> FALSE, text |-> t, changed |-> FALSE, rejected |-> TRUE]
    ELSE r @@ [rejected |-> FALSE]

\* a while loop that takes the entry pushed last, editQueue.pop()
LoopHeadPopsLast(f, cs, m, rej) ==
    IF editQueue # <<>>
    THEN LET c == editQueue[Len(editQueue)]
             r == ApplyEdit(DoSetPreference(modelSet, text, cs[c].key, cs[c].value),
                            text, rej)
         IN /\ editQueue' = SubSeq(editQueue, 1, Len(editQueue) - 1)
            /\ envEvents' = IF r.rejected THEN envEvents + 1 ELSE envEvents
            /\ text' = r.text
            /\ dirty' = (dirty \/ r.changed)
            /\ UNCHANGED << valid, savedText, userEdits >>
            /\ calls' = [cs EXCEPT ![c].by = f, ![c].ok = r.ok, ![c].chg = r.changed]
            /\ flush' = [flush EXCEPT ![f].pc = IF r.awaits THEN "awaitApply"
                                                   ELSE "awaitResult",
                                      ![f].gate = 0, ![f].cur = c, ![f].curOk = r.ok]
            /\ IF r.changed
               THEN Notify(r.text, TRUE, valid)
               ELSE preferences' = preferences /\ emitted' = {}
            /\ mq' = IF r.awaits THEN m ELSE Append(m, 0 - f)
            /\ UNCHANGED lockVars
    ELSE LET l == LockAcquire(busy, lockQueue, f)
         IN /\ busy' = l.busy
            /\ lockQueue' = l.queue
            /\ flush' = [flush EXCEPT ![f].pc = "awaitLock", ![f].gate = 0,
                                      ![f].cur = 0, ![f].curOk = FALSE]
            /\ mq' = IF f \in Range(l.queue) THEN m ELSE Append(m, 0 - f)
            /\ calls' = cs
            /\ emitted' = {}
            /\ UNCHANGED << editQueue, docVars, preferences, envEvents >>

\* the head of the while loop, and what follows it up to the next await;
\* cs and m are the calls and the microtask queue so far
LoopHead(f, cs, m, rej) ==
    IF editQueue # <<>>
    THEN LET c == Head(editQueue)
             r == ApplyEdit(DoSetPreference(modelSet, text, cs[c].key, cs[c].value),
                            text, rej)
         IN /\ editQueue' = Tail(editQueue)
            /\ envEvents' = IF r.rejected THEN envEvents + 1 ELSE envEvents
            /\ text' = r.text
            /\ dirty' = (dirty \/ r.changed)
            /\ UNCHANGED << valid, savedText, userEdits >>
            /\ calls' = [cs EXCEPT ![c].by = f, ![c].ok = r.ok, ![c].chg = r.changed]
            /\ flush' = [flush EXCEPT ![f].pc = IF r.awaits THEN "awaitApply"
                                                   ELSE "awaitResult",
                                      ![f].gate = 0, ![f].cur = c, ![f].curOk = r.ok]
            /\ IF r.changed
               THEN Notify(r.text, TRUE, valid)
               ELSE preferences' = preferences /\ emitted' = {}
            /\ mq' = IF r.awaits THEN m ELSE Append(m, 0 - f)
            /\ UNCHANGED lockVars
    ELSE LET l == LockAcquire(busy, lockQueue, f)
         IN /\ busy' = l.busy
            /\ lockQueue' = l.queue
            /\ flush' = [flush EXCEPT ![f].pc = "awaitLock", ![f].gate = 0,
                                      ![f].cur = 0, ![f].curOk = FALSE]
            /\ mq' = IF f \in Range(l.queue) THEN m ELSE Append(m, 0 - f)
            /\ calls' = cs
            /\ emitted' = {}
            /\ UNCHANGED << editQueue, docVars, preferences, envEvents >>

\* a run that resolves localPendingChanges with true whatever the save did
FlushFinishReportsSuccess(f, success, threw, m) ==
    LET l == LockRelease(busy, lockQueue)
    IN /\ busy' = l.busy
       /\ lockQueue' = l.queue
       /\ calls' = IF l.freed THEN Wake(calls) ELSE calls
       /\ mq' = IF l.freed THEN m \o FreeWaiters(calls)
                ELSE Append(m, 0 - Head(lockQueue))
       /\ flush' = [flush EXCEPT ![f].pc = "done", ![f].outcome = TRUE,
                                 ![f].threw = threw]

\* fileEditLock.release() and localPendingChanges.resolve(success)
FlushFinish(f, success, threw, m) ==
    LET l == LockRelease(busy, lockQueue)
    IN /\ busy' = l.busy
       /\ lockQueue' = l.queue
       /\ calls' = IF l.freed THEN Wake(calls) ELSE calls
       /\ mq' = IF l.freed THEN m \o FreeWaiters(calls)
                ELSE Append(m, 0 - Head(lockQueue))
       /\ flush' = [flush EXCEPT ![f].pc = "done", ![f].outcome = success,
                                 ![f].threw = threw]

\* resumes after `await this.dirtyEditorHandled.promise`
FlushGateOpen(f) ==
    /\ mq # <<>> /\ Head(mq) = 0 - f
    /\ flush[f].pc = "awaitGate"
    /\ \E rej \in Rejections : LoopHead(f, calls, Tail(mq), rej)
    /\ UNCHANGED << loading, disposed, modelSet, gate, gateResolved, handler >>

\* an editResolver resolved with localPendingChanges.promise even when the
\* edit failed
ApplyResultAlwaysShared(f, ok) == f

\* an editResolver resolved with the result of its own edit
ApplyResultPerWrite(f, ok) == IF ok THEN ResTrue ELSE ResFalse

\* what the editResolver is resolved with: localPendingChanges.promise or false
ApplyResult(f, ok) == IF ok THEN f ELSE ResFalse

\* resumes after `await this.doSetPreference(key, value)` when
\* applyBackgroundEdit has completed
FlushApplyDone(f) ==
    /\ flush[f].pc = "awaitApply"
    /\ \E rej \in Rejections :
          LoopHead(f, ResolveCall(calls, flush[f].cur, ApplyResult(f, flush[f].curOk)),
                   mq, rej)
    /\ UNCHANGED << loading, disposed, modelSet, gate, gateResolved, handler >>

\* resumes after `await this.doSetPreference(key, value)` when doSetPreference
\* returned without awaiting
FlushResultDone(f) ==
    /\ mq # <<>> /\ Head(mq) = 0 - f
    /\ flush[f].pc = "awaitResult"
    /\ \E rej \in Rejections :
          LoopHead(f, ResolveCall(calls, flush[f].cur, ApplyResult(f, flush[f].curOk)),
                   Tail(mq), rej)
    /\ UNCHANGED << loading, disposed, modelSet, gate, gateResolved, handler >>

\* a flush that never saves
ShouldSaveNever(ms, d) == FALSE

\* a flush that saves whether or not the document is dirty
ShouldSaveAlways(ms, d) == ms

\* `if (this.model?.dirty)`
ShouldSave(ms, d) == ms /\ d

\* resumes after `await this.fileEditLock.acquire()`
FlushLockGranted(f) ==
    /\ mq # <<>> /\ Head(mq) = 0 - f
    /\ flush[f].pc = "awaitLock"
    /\ IF ShouldSave(modelSet, dirty)
       THEN /\ flush' = [flush EXCEPT ![f].pc = "awaitSave", ![f].saved = TRUE]
            /\ mq' = Tail(mq)
            /\ UNCHANGED << calls, lockVars >>
       ELSE FlushFinish(f, TRUE, FALSE, Tail(mq))
    /\ emitted' = {}
    /\ UNCHANGED << loading, disposed, modelSet, docVars, preferences, editQueue, gate,
                    gateResolved, handler, envEvents >>

\* `await this.model.save()` returns (ok) or throws
FlushSaveReturn(f, ok) ==
    /\ mq = <<>>
    /\ flush[f].pc = "awaitSave"
    /\ IF ok
       THEN /\ Saved
            /\ flush' = [flush EXCEPT ![f].pc = "awaitPending"]
            /\ UNCHANGED << calls, lockVars, mq >>
       ELSE /\ FlushFinish(f, FALSE, TRUE, mq)
            /\ emitted' = {}
            /\ UNCHANGED << docVars, preferences >>
    /\ UNCHANGED << loading, disposed, modelSet, editQueue, gate, gateResolved, handler,
                    envEvents >>

\* `await this.pendingChanges` yields the post-save signal b
FlushPendingDone(f, b) ==
    /\ flush[f].pc = "awaitPending"
    /\ FlushFinish(f, b, FALSE, mq)
    /\ emitted' = {}
    /\ UNCHANGED << loading, disposed, modelSet, docVars, preferences, editQueue, gate,
                    gateResolved, handler, envEvents >>

\* ---------------------------------------------------------------- handleDirtyEditor
Answers == {"Save and Retry", "Open File", "dismissed"}

\* this.dirtyEditorHandled.resolve()
ResolveGate ==
    /\ gateResolved' = gateResolved \cup {gate}
    /\ mq' = mq \o GateWaiters(gate)

\* a handler that discards the queue only for Open File
DiscardQueueOnOpenFile(msg) == msg = "Open File"

\* `if (msg !== 'Save and Retry')`
DiscardQueue(msg) == msg # "Save and Retry"

\* the user answers the prompt
PromptAnswer(h, msg) ==
    /\ mq = <<>>
    /\ handler[h].pc = "prompt"
    /\ IF modelSet /\ msg = "Save and Retry"
       THEN /\ handler' = [handler EXCEPT ![h].pc = "saving", ![h].saved = TRUE]
            /\ UNCHANGED << editQueue, calls, gateResolved, mq >>
       ELSE /\ handler' = [handler EXCEPT ![h].pc = IF msg = "Save and Retry" THEN "done"
                                                    ELSE "declined"]
            /\ IF DiscardQueue(msg)
               THEN /\ calls' = [c \in CallIds |->
                                   IF c \in Range(editQueue)
                                   THEN ResolveCall(calls, c, ResFalse)[c]
                                   ELSE calls[c]]
                    /\ editQueue' = <<>>
               ELSE UNCHANGED << calls, editQueue >>
            /\ ResolveGate
    /\ emitted' = {}
    /\ UNCHANGED << loading, disposed, modelSet, docVars, preferences, flush, lockVars,
                    gate, envEvents >>

\* `await this.model.save()` of the handler returns (ok) or throws
HandlerSaveReturn(h, ok) ==
    /\ mq = <<>>
    /\ handler[h].pc = "saving"
    /\ IF ok
       THEN /\ Saved
            /\ handler' = [handler EXCEPT ![h].pc = "done"]
            /\ ResolveGate
       ELSE /\ handler' = [handler EXCEPT ![h].pc = "failed"]
            /\ emitted' = {}
            /\ UNCHANGED << docVars, preferences, gateResolved, mq >>
    /\ UNCHANGED << loading, disposed, modelSet, editQueue, calls, flush, lockVars, gate,
                    envEvents >>

\* ---------------------------------------------------------------- the document
\* init() resumes after createModelReference
ModelLoaded ==
    /\ mq = <<>>
    /\ loading = "pending"
    /\ ~disposed
    /\ loading' = "resolved"
    /\ modelSet' = TRUE
    /\ preferences' = ReadPreferences(TRUE, text, dirty, valid, preferences)
    /\ emitted' = PrefChanges(preferences, preferences')
    /\ mq' = mq \o LoadingWaiters
    /\ UNCHANGED << disposed, docVars, editQueue, calls, flush, lockVars, gate,
                    gateResolved, handler, envEvents >>

UserTexts(t) == {t, CorruptText}

\* the user edits the document in an editor
UserType(t) ==
    /\ mq = <<>>
    /\ modelSet
    /\ envEvents < MaxEnvEvents
    /\ envEvents' = envEvents + 1
    /\ text' = t
    /\ dirty' = TRUE
    /\ userEdits' = TRUE
    /\ UNCHANGED << valid, savedText >>
    /\ Notify(t, TRUE, valid)
    /\ UNCHANGED << loading, disposed, modelSet, editQueue, calls, flush, lockVars, gate,
                    gateResolved, handler, mq >>

\* the validity of the document changes
ValidChanged ==
    /\ mq = <<>>
    /\ modelSet
    /\ envEvents < MaxEnvEvents
    /\ envEvents' = envEvents + 1
    /\ valid' = ~valid
    /\ UNCHANGED << text, dirty, savedText, userEdits >>
    /\ Notify(text, dirty, valid')
    /\ UNCHANGED << loading, disposed, modelSet, editQueue, calls, flush, lockVars, gate,
                    gateResolved, handler, mq >>

\* the provider is disposed
Dispose ==
    /\ ~disposed
    /\ envEvents < MaxEnvEvents
    /\ envEvents' = envEvents + 1
    /\ disposed' = TRUE
    /\ loading' = IF loading = "pending" THEN "rejected" ELSE loading
    /\ mq' = IF loading = "pending" THEN mq \o LoadingWaiters ELSE mq
    /\ modelSet' = FALSE
    /\ preferences' = EmptyPrefs
    /\ emitted' = IF modelSet THEN ResetChanges(preferences) ELSE {}
    /\ UNCHANGED << docVars, editQueue, calls, flush, lockVars, gate, gateResolved,
                    handler >>

Next ==
    \/ \E c \in CallIds, rq \in Requests : Issue(c, rq) /\ UNCHANGED inputVars
    \/ \E c \in CallIds : CallLoaded(c) /\ UNCHANGED inputVars
    \/ \E c \in CallIds : CallEnqueue(c) /\ UNCHANGED inputVars
    \/ \E f \in CallIds : FlushGateOpen(f) /\ UNCHANGED inputVars
    \/ \E f \in CallIds : FlushApplyDone(f) /\ UNCHANGED inputVars
    \/ \E f \in CallIds : FlushResultDone(f) /\ UNCHANGED inputVars
    \/ \E f \in CallIds : FlushLockGranted(f) /\ UNCHANGED inputVars
    \/ \E f \in CallIds, ok \in BOOLEAN : FlushSaveReturn(f, ok) /\ UNCHANGED inputVars
    \/ \E f \in CallIds, b \in BOOLEAN : FlushPendingDone(f, b) /\ UNCHANGED inputVars
    \/ \E h \in CallIds, msg \in Answers : PromptAnswer(h, msg) /\ UNCHANGED inputVars
    \/ \E h \in CallIds, ok \in BOOLEAN : HandlerSaveReturn(h, ok) /\ UNCHANGED inputVars
    \/ ModelLoaded /\ UNCHANGED inputVars
    \/ \E t \in UserTexts(text) : UserType(t) /\ UNCHANGED inputVars
    \/ ValidChanged /\ UNCHANGED inputVars
    \/ Dispose /\ UNCHANGED inputVars

Spec == Init /\ [][Next]_vars

TypeOK ==
    /\ loading \in {"pending", "resolved", "rejected"}
    /\ busy \in BOOLEAN
    /\ dirty \in BOOLEAN
    /\ gate \in 0..MaxCalls

\* ---------------------------------------------------------------- properties
Issued == { c \in CallIds : calls[c].pc # "idle" }
Enqueued == { c \in CallIds : calls[c].pc = "returned" }

\* the promise setPreference returned to call c is settled
Settled(c) ==
    \/ calls[c].res \in {ResFalse, ResRejected, ResTrue}
    \/ calls[c].res > 0 /\ flush[calls[c].res].pc = "done"

\* the number of times model.save() was invoked
NumSaves ==
    Cardinality({ f \in CallIds : flush[f].saved })
        + Cardinality({ h \in CallIds : handler[h].saved })

\* no invocation of model.save() threw
NoSaveThrew ==
    /\ \A f \in CallIds : ~flush[f].threw
    /\ \A h \in CallIds : handler[h].pc # "failed"

\* a batch on a loaded document the user never edited and that rejected no
\* edit: every call was enqueued before a flush began to drain the queue, and
\* every call's promise is settled
BatchResolved ==
    /\ loading = "resolved"
    /\ ~disposed
    /\ envEvents = 0
    /\ Enqueued # {}
    /\ \A c \in Enqueued : ~calls[c].late
    /\ \A c \in Issued : Settled(c)

\* the enqueued calls that wrote key k, and the last of them in issue order
TouchedBy(k) == { c \in Enqueued : calls[c].key = k }
LastCall(k) == CHOOSE c \in TouchedBy(k) : \A d \in TouchedBy(k) : d <= c

\* the calls whose edit of key k was applied, and the last of them
Applied(k) == { c \in CallIds : calls[c].by # 0 /\ calls[c].ok /\ calls[c].key = k }
LastApplied(k) == CHOOSE c \in Applied(k) : \A d \in Applied(k) : d <= c

\* the handlers whose prompt is not resolved yet
OpenHandlers == { h \in CallIds : handler[h].pc \in {"prompt", "saving"} }

\* the flushes between a granted acquire() and their release()
Holders ==
    { f \in CallIds :
        \/ flush[f].pc \in {"awaitSave", "awaitPending"}
        \/ flush[f].pc = "awaitLock" /\ f \notin Range(lockQueue) }

\* C1 as stated: when a batch has resolved, model.save() was invoked exactly
\* once and the document is not dirty.
C1_Original ==
    BatchResolved => (NumSaves = 1 /\ ~dirty)

\* C1: when a batch of calls that were all enqueued before the flush began to
\* drain has resolved on a document the user never edited, model.save() was
\* invoked at most once, it was invoked exactly when some write changed the
\* text, and the document is dirty only if that save threw.
C1_SavesOnce ==
    BatchResolved
        => /\ NumSaves <= 1
           /\ NumSaves = 1 <=> \E c \in CallIds : calls[c].chg
           /\ dirty => \E f \in CallIds : flush[f].threw

\* three writes of one batch changed the text and were saved by one save
C1_Witness ==
    /\ BatchResolved
    /\ Cardinality({ c \in Enqueued : calls[c].chg }) = MaxCalls
    /\ NumSaves = 1
    /\ ~dirty

C3_PromptOncePerBatch ==
    \A h1 \in OpenHandlers :
        handler[h1].user => \A h2 \in OpenHandlers : h2 <= h1

\* handler h takes an answer other than Save and Retry
Declines(h) == handler[h].pc = "prompt" /\ handler'[h].pc = "declined"

\* C4: when the user dismisses the prompt or chooses Open File, every write in
\* the queue resolves to false without having been applied, the queue is
\* emptied and the document is left as it is; no resolved write is ever in
\* the queue, and a call that then enqueues on the empty queue starts a
\* doSetPreferences run of its own.
C4_DismissDiscards ==
    [][ /\ \A h \in CallIds :
              Declines(h)
                => /\ editQueue' = <<>>
                   /\ \A c \in Range(editQueue) :
                         calls'[c].res = ResFalse /\ calls'[c].by = 0
                   /\ text' = text /\ dirty' = dirty /\ savedText' = savedText
        /\ \A c \in Range(editQueue') : calls'[c].res = Unresolved
        /\ \A c \in CallIds :
              (calls[c].pc = "freeReady" /\ calls'[c].pc = "returned" /\ editQueue = <<>>)
                => (editQueue' = <<c>> /\ flush'[c].pc = "awaitGate")
      ]_vars

\* two queued writes were discarded by a dismissal and a later call began a
\* transaction of its own
C4_Witness ==
    \E h \in CallIds :
        /\ handler[h].pc = "declined"
        /\ \E c1, c2 \in Enqueued :
              /\ c1 # c2
              /\ calls[c1].res = ResFalse /\ calls[c1].by = 0
              /\ calls[c2].res = ResFalse /\ calls[c2].by = 0
              /\ \E c3 \in Enqueued : c3 > c1 /\ c3 > c2 /\ flush[c3].pc = "done"

\* C5: at most one flush is between a granted acquire() and its release(),
\* and the lock is busy while one is.
C5_OneHolder ==
    /\ Cardinality(Holders) <= 1
    /\ Holders # {} => busy
    /\ \A f \in Range(lockQueue) : flush[f].pc = "awaitLock"

\* one flush is saving while another waits in acquire()
C5_Witness ==
    \E f \in Holders : flush[f].pc = "awaitSave" /\ lockQueue # <<>>

\* C6: no doSetPreferences run is started while another run is in its drain
\* loop, awaiting the edit of an entry it popped.
C6_OneDrainLoop ==
    [][ \A c \in CallIds :
           (flush[c].pc = "none" /\ flush'[c].pc # "none")
             => \A f \in CallIds : flush[f].pc \notin {"awaitApply", "awaitResult"}
      ]_vars

\* C7: handleDirtyEditor is started only when the document holds unsaved
\* edits of the user.
C7_PromptOnlyForUserEdits ==
    [][ \A h \in CallIds :
           (handler[h].pc = "none" /\ handler'[h].pc = "prompt") => userEdits
      ]_vars

\* C8: every write a flush popped and applied cleanly is resolved with that
\* flush's promise localPendingChanges, which resolves to the outcome of the
\* transaction: false when save() threw, true when nothing had to be saved.
C8_SharedOutcome ==
    /\ \A c \in CallIds :
          (calls[c].by # 0 /\ calls[c].ok /\ calls[c].res # Unresolved)
            => calls[c].res = calls[c].by
    /\ \A f \in CallIds :
          flush[f].pc = "done"
            => /\ flush[f].threw => ~flush[f].outcome
               /\ ~flush[f].saved => flush[f].outcome

\* writes a = 1 and b = 2 drained by one flush that saved: both resolved with
\* its promise
C8_Witness ==
    \E f \in CallIds, c1, c2 \in CallIds :
        /\ flush[f].pc = "done" /\ flush[f].saved /\ flush[f].outcome
        /\ calls[c1].key = "a" /\ calls[c1].value = 1 /\ calls[c1].res = f
        /\ calls[c2].key = "b" /\ calls[c2].value = 2 /\ calls[c2].res = f

\* flush f resolves its promise to true
ResolvesTrue(f) == flush[f].pc # "done" /\ flush'[f].pc = "done" /\ flush'[f].outcome

\* C9: on a loaded document the user never edited, when the promise of a
\* write resolves to true the document is not dirty and the snapshot holds
\* the value of the latest applied write to the key.
C9_SnapshotAtResolve ==
    [][ \A f \in CallIds, c \in CallIds :
           (ResolvesTrue(f) /\ calls[c].res = f /\ modelSet /\ envEvents = 0)
             => /\ ~dirty'
                /\ preferences'[calls[c].key] = calls[LastApplied(calls[c].key)].value
      ]_vars

\* C10: a step that leaves the document dirty leaves the snapshot unchanged
\* and emits nothing; whenever the document is clean the snapshot is the
\* parse of its text, or empty when it is not valid.
C10_SnapshotOnlyWhenClean ==
    [][ /\ (modelSet' /\ dirty') => (preferences' = preferences /\ emitted' = {})
        /\ (modelSet' /\ ~dirty')
             => preferences' = IF valid' THEN GetParsedContent(text') ELSE EmptyPrefs
      ]_vars

\* the document is dirty and its text parses to something else than the
\* snapshot, which holds an earlier clean state
C10_Witness ==
    /\ modelSet /\ dirty /\ valid
    /\ preferences # EmptyPrefs
    /\ GetParsedContent(text) # preferences

\* the positions of a doSetPreferences run from its call of acquire() on
LockPhase == {"awaitLock", "awaitSave", "awaitPending", "done"}

ValueOf(c) ==
    IF calls[c].res = ResTrue THEN "true"
    ELSE IF calls[c].res = ResFalse THEN "false"
    ELSE IF calls[c].res = ResRejected THEN "rejected"
    ELSE IF calls[c].res > 0 /\ flush[calls[c].res].pc = "done"
         THEN IF flush[calls[c].res].outcome THEN "true" ELSE "false"
         ELSE "pending"

\* C12: when the save of a run throws, or the signal awaited after the save
\* is false, the run ends with outcome false in that step, every write it
\* popped is thereby resolved to false, no promise of a caller is rejected,
\* and no save is invoked; a run that has ended does nothing more and no run
\* invokes save a second time.
C12_SaveFailureResolvesFalse ==
    [][ /\ \A f \in CallIds :
              (FlushSaveReturn(f, FALSE) \/ FlushPendingDone(f, FALSE))
                => /\ flush'[f].pc = "done"
                   /\ ~flush'[f].outcome
                   /\ \A c \in CallIds : calls[c].by = f => ValueOf(c)' = "false"
                   /\ \A c \in CallIds :
                         calls'[c].res = ResRejected => calls[c].res = ResRejected
                   /\ NumSaves' = NumSaves
        /\ \A f \in CallIds :
              /\ flush[f].pc = "done" => flush'[f] = flush[f]
              /\ (flush[f].saved /\ flush'[f].pc = "awaitSave") => flush[f].pc = "awaitSave"
      ]_vars

\* one run saved two writes and got the signal false, another run's save
\* threw: the writes of both are resolved to false
C12_Witness ==
    \E f, g \in CallIds :
        /\ flush[f].pc = "done" /\ flush[f].saved /\ ~flush[f].threw /\ ~flush[f].outcome
        /\ Cardinality({ c \in CallIds : calls[c].res = f }) = 2
        /\ flush[g].pc = "done" /\ flush[g].threw
        /\ \E c \in CallIds : calls[c].res = g /\ ValueOf(c) = "false"

\* run f pops call c in this step
Pops(f, c) == calls[c].by = 0 /\ calls'[c].by = f

\* run f resumes from its await of doSetPreference in this step
ResumesFromEdit(f) ==
    flush[f].pc \in {"awaitApply", "awaitResult"} /\ flush'[f] # flush[f]

\* C13: a write whose doSetPreference returns false is resolved to false one
\* microtask after it was popped, and no other write is resolved by that
\* step; the run goes on in the same step, popping the next write if there
\* is one and calling acquire() otherwise; every other write the run popped
\* and applied is resolved with the run's promise localPendingChanges.
C13_FailedEditOnlyFailsItself ==
    [][ \A f \in CallIds :
          /\ \A c \in CallIds :
                (Pops(f, c) /\ ~calls'[c].ok)
                  => /\ flush'[f].pc = "awaitResult" /\ flush'[f].cur = c
                     /\ (0 - f) \in Range(mq')
          /\ (ResumesFromEdit(f) /\ ~flush[f].curOk)
                => /\ calls[flush[f].cur].res = Unresolved
                   /\ calls'[flush[f].cur].res = ResFalse
                   /\ \A d \in CallIds \ {flush[f].cur} : calls'[d].res = calls[d].res
                   /\ IF editQueue # <<>>
                      THEN Pops(f, Head(editQueue)) /\ editQueue' = Tail(editQueue)
                      ELSE flush'[f].pc = "awaitLock"
          /\ \A d \in CallIds :
                (calls'[d].by = f /\ calls'[d].ok /\ calls'[d].res # Unresolved)
                  => calls'[d].res = f
      ]_vars

\* the document rejected the edit of the first write of a run and took the
\* edit of a later one: the first is resolved to false, the later one with
\* the outcome of the run's save, which is true
C13_Witness ==
    \E f \in CallIds, c1, c2 \in CallIds :
        /\ c1 < c2
        /\ calls[c1].by = f /\ ~calls[c1].ok /\ ValueOf(c1) = "false"
        /\ calls[c2].by = f /\ calls[c2].ok /\ calls[c2].chg
        /\ flush[f].pc = "done" /\ flush[f].saved
        /\ ValueOf(c2) = "true"

\* C14 as stated: a call with a resource URI outside the domain that has come
\* back from its wait for loading is resolved to false.
C14_Original ==
    \A c \in CallIds :
        (calls[c].resource = OutResource /\ calls[c].pc \notin {"idle", "awaitLoading"})
          => calls[c].res = ResFalse

\* C14: a call with a resource URI outside the domain is never enqueued and
\* starts no prompt and no doSetPreferences run; the steps it takes leave the
\* queue, the document, the snapshot, the gate, the lock, the prompts and
\* the runs as they are; it ends resolved to false, or rejected if and only
\* if the wait for loading failed.
C14_OutOfDomainChangesNothing ==
    [][ \A c \in CallIds :
          calls'[c].resource = OutResource
            => /\ c \notin Range(editQueue')
               /\ flush'[c].pc = "none" /\ handler'[c].pc = "none"
               /\ calls'[c].pc \in {"awaitLoading", "refused"}
               /\ calls'[c] # calls[c]
                     => /\ UNCHANGED << editQueue, text, dirty, valid, savedText,
                                        preferences, gate, gateResolved, busy,
                                        lockQueue, handler, flush >>
                        /\ emitted' = {}
               /\ calls'[c].pc = "refused"
                     => calls'[c].res = IF loading' = "rejected" THEN ResRejected
                                        ELSE ResFalse
      ]_vars

\* a call with a resource URI outside the domain was resolved to false while
\* the run of an earlier call was saving
C14_Witness ==
    \E c, f \in CallIds :
        /\ f < c
        /\ calls[c].resource = OutResource /\ calls[c].pc = "refused"
        /\ calls[c].res = ResFalse
        /\ flush[f].pc = "awaitSave"

\* C15: a disposal while loading is pending rejects loading; from then on the
\* model is never set, every call that waits for loading has its resumption
\* queued, every call that has resumed is rejected, and nothing is enqueued:
\* the queue is empty and no prompt and no doSetPreferences run was started.
C15_DisposedWhileLoadingRejects ==
    [][ /\ (loading = "pending" /\ disposed') => loading' = "rejected"
        /\ loading' = "rejected"
              => /\ disposed' /\ ~modelSet'
                 /\ editQueue' = <<>>
                 /\ \A c \in CallIds :
                       /\ flush'[c].pc = "none" /\ handler'[c].pc = "none"
                       /\ calls'[c].pc \in {"idle", "awaitLoading", "refused"}
                       /\ calls'[c].pc = "awaitLoading" => c \in Range(mq')
                       /\ calls'[c].pc = "refused" => calls'[c].res = ResRejected
      ]_vars

\* the provider was disposed while loading and every call, made before or
\* after, was rejected
C15_Witness ==
    /\ loading = "rejected"
    /\ \A c \in CallIds : calls[c].pc = "refused" /\ calls[c].res = ResRejected
    /\ \E c \in CallIds : calls[c].resource = InResource

\* something the premise of C16 says will happen is still to happen: a
\* microtask, the answer to a prompt, the return of an edit or of a save
Pending ==
    \/ mq # <<>>
    \/ \E h \in CallIds : handler[h].pc \in {"prompt", "saving"}
    \/ \E f \in CallIds : flush[f].pc \in {"awaitApply", "awaitSave", "awaitPending"}

\* call c found the model set and its resource URI in the domain
PassedChecks(c) ==
    \/ calls[c].pc \in {"freeReady", "freeBlocked", "returned"}
    \/ calls[c].pc = "refused" /\ calls[c].res = ResRejected /\ loading = "resolved"

\* C16: when every microtask has run, every prompt is answered and every edit
\* and save has returned or thrown, every call that passed the readiness and
\* domain checks is resolved to a boolean, and if every call is settled the
\* queue is empty and the lock is free.
C16_EventuallyResolves ==
    ~Pending
      => /\ \A c \in CallIds : PassedChecks(c) => ValueOf(c) \in {"true", "false"}
         /\ (\A c \in Issued : ValueOf(c) # "pending") => (editQueue = <<>> /\ ~busy)

\* no call was enqueued after a run had begun to drain the queue
FirstBatch == \A c \in Enqueued : ~calls[c].late

\* the first batch met a document with unsaved edits of the user, the one
\* prompt it raised was answered Save and Retry and that save returned, and
\* every call's promise is settled
DirtyBatchResolved ==
    /\ loading = "resolved"
    /\ ~disposed
    /\ FirstBatch
    /\ \E h \in Enqueued :
          /\ handler[h].pc = "done" /\ handler[h].user /\ handler[h].saved
          /\ \A g \in CallIds \ {h} : handler[g].pc = "none"
    /\ \A c \in Issued : Settled(c)

\* C17 as stated: when such a batch has resolved, model.save() was invoked
\* exactly twice.
C17_Original ==
    DirtyBatchResolved => NumSaves = 2

\* C17: while the prompt of the first batch is unresolved no run has left its
\* wait for the gate and none has invoked save; when the batch has resolved
\* after Save and Retry, one run popped every enqueued write, and save was
\* invoked once by the handler and once more by that run exactly if some
\* write changed the text.
C17_SaveAndRetry ==
    /\ (FirstBatch /\ \E h \in OpenHandlers : handler[h].user)
          => \A f \in CallIds : flush[f].pc \in {"none", "awaitGate"} /\ ~flush[f].saved
    /\ DirtyBatchResolved
          => /\ \E f \in Enqueued :
                   /\ handler[f].saved
                   /\ \A c \in Enqueued : calls[c].by = f
                   /\ \A g \in CallIds \ {f} : ~flush[g].saved
                   /\ flush[f].saved <=> \E c \in CallIds : calls[c].chg
             /\ NumSaves \in {1, 2}

\* three writes were queued behind the prompt, the user chose Save and
\* Retry, and the batch took two saves
C17_Witness ==
    /\ DirtyBatchResolved
    /\ Cardinality({ c \in Enqueued : calls[c].chg }) = MaxCalls
    /\ NumSaves = 2
    /\ ~dirty

\* the provider is disposed in this step, with the document loaded
DisposedLoaded == ~disposed /\ disposed' /\ modelSet

\* C18: the disposal of a loaded provider empties the snapshot and emits
\* exactly the records (name, oldValue the value of the snapshot, newValue
\* undefined) of the keys the snapshot held a defined value for; it emits
\* nothing when the snapshot was empty.
C18_DisposalEmitsRemovals ==
    [][ DisposedLoaded
          => /\ preferences' = EmptyPrefs
             /\ \A k \in Keys :
                   preferences[k] # Undefined
                     <=> [name |-> k, oldValue |-> preferences[k], newValue |-> Undefined]
                            \in emitted'
             /\ \A e \in emitted' :
                   e.newValue = Undefined /\ e.oldValue = preferences[e.name]
             /\ preferences = EmptyPrefs => emitted' = {}
      ]_vars

\* the provider was disposed with both keys in its snapshot and emitted a
\* removal record for each
C18_Witness ==
    /\ disposed
    /\ preferences = EmptyPrefs
    /\ emitted = { [name |-> "a", oldValue |-> 1, newValue |-> Undefined],
                   [name |-> "b", oldValue |-> 2, newValue |-> Undefined] }

\* C19: no step other than the disposal emits a change record for a key the
\* schema bars from the scope of the provider, whether or not the step
\* changed the value of that key in the snapshot.
C19_OutOfScopeKeyNeverEmitted ==
    [][ ~DisposedLoaded => \A e \in emitted' : ValidInScope(e.name) ]_vars

\* the one save of the behaviour brought a = 1 and b = 2 into the snapshot,
\* and the change event holds the record of a only
C19_Witness ==
    /\ NumSaves = 1 /\ envEvents = 0
    /\ preferences = [a |-> 1, b |-> 2]
    /\ emitted = { [name |-> "a", oldValue |-> Undefined, newValue |-> 1] }

\* call 1 set a to 1 and resolved to true; call 2 then set a to 1 again and
\* was drained by a run of its own; there was no other call, no prompt and
\* no event from outside, and call 2 is settled
SameValueTwice ==
    /\ calls[1].key = "a" /\ calls[1].value = 1 /\ calls[1].by = 1
    /\ ValueOf(1) = "true"
    /\ calls[2].key = "a" /\ calls[2].value = 1 /\ calls[2].by = 2
    /\ Settled(2)
    /\ calls[3].pc = "idle"
    /\ envEvents = 0
    /\ \A h \in CallIds : handler[h].pc = "none"

C21_UndefinedOnEmptyIsNoOp ==
    [][ /\ \A f \in CallIds, c \in CallIds :
              (Pops(f, c) /\ modelSet /\ text.kind = "empty" /\ calls[c].value = Undefined)
                => /\ calls'[c].ok /\ ~calls'[c].chg
                   /\ text' = text /\ dirty' = dirty /\ preferences' = preferences
                   /\ flush'[f].pc = "awaitResult"
                   /\ envEvents' = envEvents
        /\ \A f \in CallIds :
              ( /\ flush'[f].pc = "done" /\ modelSet' /\ text'.kind = "empty"
                /\ \E c \in CallIds : calls'[c].by = f
                /\ \A c \in CallIds : calls'[c].by = f => calls'[c].value = Undefined )
                => /\ ~flush'[f].saved /\ flush'[f].outcome
                   /\ \A c \in CallIds : calls'[c].by = f => ValueOf(c)' = "true"
      ]_vars

\* three writes of undefined to a document without content were drained by
\* one run: no save, every write resolved to true
C21_Witness ==
    /\ text = EmptyText /\ modelSet /\ ~dirty
    /\ NumSaves = 0
    /\ flush[1].pc = "done"
    /\ \A c \in CallIds :
          calls[c].by = 1 /\ calls[c].value = Undefined /\ ValueOf(c) = "true"

\* C22: the queue of the lock changes only by a waiting acquire(), which
\* appends the caller at its end, and by a release(), which removes its head
\* and grants the lock to that caller alone, the lock staying busy; a caller
\* in the queue is suspended in acquire() and has not been granted the lock.
C22_LockServesInArrivalOrder ==
    [][ /\ \/ lockQueue' = lockQueue
           \/ \E f \in CallIds :
                 /\ lockQueue' = Append(lockQueue, f)
                 /\ busy
                 /\ flush[f].pc # "awaitLock"
           \/ /\ lockQueue # <<>>
              /\ lockQueue' = Tail(lockQueue)
              /\ busy /\ busy'
              /\ (0 - Head(lockQueue)) \in Range(mq')
        /\ \A f \in Range(lockQueue') :
              flush'[f].pc = "awaitLock" /\ (0 - f) \notin Range(mq')
      ]_vars

\* two runs wait in acquire(), in the order of their calls of acquire(),
\* while a third holds the lock
C22_Witness ==
    /\ Len(lockQueue) = 2
    /\ Holders # {}
    /\ Range(lockQueue) \cap Holders = {}

\* C23: a call that reaches waitUntilFree() goes on in the next microtask if
\* the lock is free and is suspended if it is busy; a suspended call is
\* resumed only by a release() that finds no run waiting in acquire() and
\* clears busy, so a release() that hands the lock on resumes none; no step
\* of waitUntilFree() sets busy or enters the queue of the lock.
C23_WaitUntilFree ==
    [][ \A c \in CallIds :
          /\ (calls[c].pc = "awaitLoading" /\ calls'[c].pc = "freeReady")
                => (~busy /\ ~busy' /\ c \in Range(mq'))
          /\ (calls[c].pc = "awaitLoading" /\ calls'[c].pc = "freeBlocked")
                => (busy /\ busy' /\ c \notin Range(mq') /\ lockQueue' = lockQueue)
          /\ (calls[c].pc = "freeBlocked" /\ calls'[c].pc # "freeBlocked")
                => /\ calls'[c].pc = "freeReady" /\ c \in Range(mq')
                   /\ busy /\ ~busy' /\ lockQueue = <<>> /\ lockQueue' = <<>>
          /\ (calls[c].pc = "freeBlocked" /\ lockQueue # <<>> /\ lockQueue' = Tail(lockQueue))
                => calls'[c].pc = "freeBlocked"
          /\ calls[c].pc = "freeBlocked" => busy
      ]_vars

\* a call is suspended in waitUntilFree() although a run has released the
\* lock: the lock went to a run that waited in acquire() and now saves
C23_Witness ==
    \E c, f, g \in CallIds :
        /\ calls[c].pc = "freeBlocked"
        /\ flush[f].pc = "done" /\ flush[f].saved
        /\ flush[g].pc = "awaitSave" /\ g \in Holders
        /\ lockQueue = <<>>

\* run f calls release() in this step
Releases(f) == f \in Holders /\ flush'[f].pc = "done"

\* C24: a run that was granted the lock leaves its save section only by the
\* step that releases the lock and resolves its promise: the lock goes to
\* the head of the queue if a run waits, and is free otherwise; the state of
\* the lock changes in no other way but by acquire(); a run that has ended
\* never holds the lock, and the lock is busy only while a run that has not
\* ended holds it.
C24_GrantedLockIsReleasedOnce ==
    [][ /\ \A f \in CallIds :
              /\ (f \in Holders /\ f \notin Holders') => Releases(f)
              /\ Releases(f)
                    => IF lockQueue # <<>>
                       THEN busy' /\ lockQueue' = Tail(lockQueue)
                                  /\ Head(lockQueue) \in Holders'
                       ELSE ~busy' /\ lockQueue' = <<>>
              /\ flush[f].pc = "done" => (flush'[f].pc = "done" /\ f \notin Holders')
        /\ ((busy /\ ~busy') \/ Len(lockQueue') < Len(lockQueue))
              => Cardinality({ f \in CallIds : Releases(f) }) = 1
        /\ busy' => Holders' # {}
      ]_vars

\* three runs were granted the lock and have ended, one whose save threw, one
\* that had nothing to save and one whose save returned: the lock is free
C24_Witness ==
    \E f, g, h \in CallIds :
        /\ flush[f].pc = "done" /\ flush[f].threw
        /\ flush[g].pc = "done" /\ ~flush[g].saved
        /\ flush[h].pc = "done" /\ flush[h].saved /\ ~flush[h].threw
        /\ ~busy /\ lockQueue = <<>>

\* call c is pushed on editQueue in this step
Pushes(c) == calls[c].pc # "returned" /\ calls'[c].pc = "returned"

\* C25: writes are applied in the order they were enqueued. A write is
\* pushed at the end of editQueue, and writes are pushed in the order of
\* their calls; the write a run takes is the head of editQueue, its edit is
\* made in the step that takes it, and the text changes by that edit alone;
\* the writes left in the queue keep their order; so once a write has been
\* taken no write enqueued before it is taken any more.
C25_AppliedInQueueOrder ==
    [][ \A c \in CallIds :
          /\ Pushes(c)
                => /\ editQueue' = Append(editQueue, c)
                   /\ \A d \in CallIds : d > c => calls[d].pc # "returned"
          /\ \A f \in CallIds :
                Pops(f, c)
                  => /\ editQueue # <<>> /\ c = Head(editQueue)
                     /\ editQueue' = Tail(editQueue)
                     /\ \A d \in CallIds : d # c => calls'[d].by = calls[d].by
                     /\ calls'[c].chg
                           => text' = Modify(text, calls[c].key, calls[c].value).text
                     /\ ~calls'[c].chg => text' = text
          /\ \A d \in CallIds :
                (d < c /\ calls[c].by # 0 /\ calls[d].by = 0) => calls'[d].by = 0
          /\ (calls[c].by # 0 \/ calls[c].pc # "returned") => c \notin Range(editQueue)
      ]_vars

\* three writes were enqueued and each has changed the document, and two runs
\* took them
C25_Witness ==
    /\ \A c \in CallIds : calls[c].by # 0 /\ calls[c].chg
    /\ \E c, d \in CallIds : calls[c].by # calls[d].by

\* the handlers whose handleDirtyEditor has ended, by returning or by throwing
EndedHandlers == { h \in CallIds : handler[h].pc \in {"done", "declined", "failed"} }

\* C26: once handleDirtyEditor has ended, whatever the user chose and whether
\* the save it made returned or threw, the gate that setPreference armed for
\* it is resolved.
C26_GateResolvedAfterAnswer ==
    \A h \in EndedHandlers : h \in gateResolved

\* the gate dirtyEditorHandled is pending
GatePending == gate \notin gateResolved

\* run f calls model.save() in this step
InvokesSave(f) == flush[f].pc # "awaitSave" /\ flush'[f].pc = "awaitSave"

\* C27: while the gate is pending no run takes a write from the queue and
\* edits the document, and no run calls save().
C27_NothingAppliedWhilePrompted ==
    [][ GatePending
          => \A f \in CallIds :
                /\ ~InvokesSave(f)
                /\ \A c \in CallIds : ~Pops(f, c)
      ]_vars

\* the steps of the environment that change the text: the user types
TextByUser == userEdits' /\ envEvents' = envEvents + 1

\* C28: the coordinator changes the text of the document only in the step in
\* which a run takes a write from the queue, and while a run holds the lock
\* no run takes a write and no other run calls save().
C28_EditsOnlyInFlushAndNotWhileLocked ==
    [][ /\ (text' # text /\ ~TextByUser) => \E f, c \in CallIds : Pops(f, c)
        /\ Holders # {}
              => \A f \in CallIds :
                    /\ \A c \in CallIds : ~Pops(f, c)
                    /\ InvokesSave(f) => f \in Holders
      ]_vars

\* the keys whose value differs between the snapshot before and after the step
Differing == { k \in Keys : preferences[k] # preferences'[k] }

\* C29: a step that does not dispose of the provider emits a change record
\* for exactly the keys valid in this scope whose value in the snapshot was
\* added, removed or changed by the step, with the old and the new value,
\* and emits nothing when there is no such key.
C29_EmitsExactlyTheChangedKeys ==
    [][ disposed' = disposed
          => emitted' = { [name |-> k, oldValue |-> preferences[k],
                           newValue |-> preferences'[k]] :
                            k \in { n \in Differing : ValidInScope(n) } }
      ]_vars

\* a re-parse has just emitted the removal of the key "a" and no record for
\* the key "b", whose value is set in the new snapshot
C29_Witness ==
    /\ ~disposed
    /\ emitted = { [name |-> "a", oldValue |-> 1, newValue |-> Undefined] }
    /\ preferences["b"] # Undefined

\* what a listener of the change event reads with getPreferences() while the
\* event of this step is emitted
SeenByListener == GetPreferences(modelSet', valid', preferences', NoResource)

C31_DeclinedRunDoesNotSave ==
    \A h \in CallIds : handler[h].pc = "declined" => ~flush[h].saved

\* the editResolver of call c is resolved in this step
Resolves(c) == calls[c].res = Unresolved /\ calls'[c].res # Unresolved

\* a step leaves the editResolver of an enqueued write as it is or resolves
\* it, either as the run that took the write resumes from its edit or as a
\* handler discards the queue that holds it, and never again afterwards; a
\* write in the queue is neither resolved nor taken, and a write leaves the
\* queue only taken by a run or resolved by the handler
ResolvedAtMostOnce ==
    \A c \in CallIds :
       /\ calls[c].res # Unresolved => calls'[c].res = calls[c].res
       /\ (Resolves(c) /\ calls[c].pc = "returned")
             => \/ /\ calls[c].by # 0 /\ c \notin Range(editQueue)
                   /\ ResumesFromEdit(calls[c].by) /\ flush[calls[c].by].cur = c
                   /\ \A h \in CallIds : ~Declines(h)
                \/ /\ calls[c].by = 0 /\ c \in Range(editQueue)
                   /\ calls'[c].res = ResFalse /\ calls'[c].by = 0
                   /\ \E h \in CallIds : Declines(h)
       /\ c \in Range(editQueue')
             => calls'[c].res = Unresolved /\ calls'[c].by = 0
       /\ (c \in Range(editQueue) /\ c \notin Range(editQueue'))
             => \/ \E f \in CallIds : Pops(f, c)
                \/ Resolves(c)

\* C32: the editResolver of every enqueued write is resolved exactly once,
\* by the run that took the write or by the handler that discarded it and
\* never by both; a resolved write is not in the queue and a write leaves
\* the queue only to be resolved; when every microtask has run, every prompt
\* is answered and every edit and save has returned or thrown, no enqueued
\* write is left unresolved.
C32_ResolvedExactlyOnce ==
    [][ /\ ResolvedAtMostOnce
        /\ ~Pending' => \A c \in Enqueued' : calls'[c].res # Unresolved
      ]_vars

\* C33: once the document reference has resolved, no promise returned by
\* setPreference is rejected: a call that passed the checks of lines 169-174
\* settles with a boolean also when the provider is disposed of while the
\* call waits in waitUntilFree() or in the queue.
C33_NeverRejectsOnceLoaded ==
    loading = "resolved" => \A c \in CallIds : ValueOf(c) # "rejected"

\* ---------------------------------------------------------------- PreferenceBooleanInput
\* The checkbox of packages/preferences/src/browser/views/components: one
\* action per event (a click, the settling of a setPreference promise, a new
\* preference value in the props), each followed by the render and the
\* effects it causes.
MaxInFlight == 3     \* setValue calls that await setPreference at one time

\* preferenceDisplayNode.preference.value: the booleans and a value that is
\* not a boolean
RawValues == {"true", "false", "other"}

\* line 27: the value when it is a boolean, undefined otherwise
BooleanValue(raw) == IF raw \in {"true", "false"} THEN raw ELSE "undefined"

\* `!!value`
Truthy(v) == v = "true"

\* the string form of a boolean of the model
FromBoolean(b) == IF b THEN "true" ELSE "false"

\* the state checked after the render with the new props: the effect of
\* lines 33-35 runs when value differs from the value of the last render
Effect(oldRaw, newRaw, chk) ==
    IF BooleanValue(newRaw) # BooleanValue(oldRaw)
    THEN Truthy(BooleanValue(newRaw))
    ELSE chk

\* the sequence s without its i-th element
Without(s, i) == SubSeq(s, 1, i - 1) \o SubSeq(s, i + 1, Len(s))

\* the component is mounted: useState(!!value)
InitInput ==
    /\ loading = "pending"
    /\ disposed = FALSE
    /\ modelSet = FALSE
    /\ text = EmptyText
    /\ dirty = FALSE
    /\ valid = TRUE
    /\ savedText = text
    /\ userEdits = FALSE
    /\ preferences = EmptyPrefs
    /\ editQueue = <<>>
    /\ calls = [c \in CallIds |-> NoCall]
    /\ flush = [c \in CallIds |-> NoFlush]
    /\ busy = FALSE
    /\ lockQueue = <<>>
    /\ gate = 0
    /\ gateResolved = {0}
    /\ handler = [c \in CallIds |-> NoHandler]
    /\ mq = <<>>
    /\ envEvents = 0
    /\ emitted = {}
    /\ prefValue \in RawValues
    /\ checked = Truthy(BooleanValue(prefValue))
    /\ inFlight = <<>>

\* the user clicks the checkbox: setValue runs up to its await; the callback
\* closes over checked and value of the last render, and e.target.checked is
\* the negation of the checked it displayed
SetValue ==
    /\ Len(inFlight) < MaxInFlight
    /\ checked' = ~checked
    /\ inFlight' = Append(inFlight, [newValue |-> ~checked,
                                     value |-> BooleanValue(prefValue)])
    /\ UNCHANGED prefValue

\* `await setPreference(id, newValue)` returns: the preference was written
\* and the component is rendered with the new value
SetPreferenceResolved(i) ==
    /\ i \in DOMAIN inFlight
    /\ prefValue' = FromBoolean(inFlight[i].newValue)
    /\ checked' = Effect(prefValue, prefValue', checked)
    /\ inFlight' = Without(inFlight, i)

\* `await setPreference(id, newValue)` throws: the catch block of line 43
SetPreferenceRejected(i) ==
    /\ i \in DOMAIN inFlight
    /\ checked' = Truthy(inFlight[i].value)
    /\ inFlight' = Without(inFlight, i)
    /\ UNCHANGED prefValue

\* the preference value changes from outside and the component is rendered
\* with it
PreferenceChanged(raw) ==
    /\ raw # prefValue
    /\ prefValue' = raw
    /\ checked' = Effect(prefValue, raw, checked)
    /\ UNCHANGED inFlight

NextInput ==
    \/ SetValue /\ UNCHANGED providerVars
    \/ \E i \in 1..MaxInFlight : SetPreferenceResolved(i) /\ UNCHANGED providerVars
    \/ \E i \in 1..MaxInFlight : SetPreferenceRejected(i) /\ UNCHANGED providerVars
    \/ \E raw \in RawValues : PreferenceChanged(raw) /\ UNCHANGED providerVars

SpecInput == InitInput /\ [][NextInput]_vars

\* C34: whenever no setPreference call of the checkbox is pending, the
\* checked state is the boolean form of the preference value: a call that
\* rejected has put it back to the current value and a change from outside
\* has overwritten it.
C34_CheckedFollowsValue ==
    inFlight = <<>> => checked = Truthy(BooleanValue(prefValue))

====
